---- MODULE Spec2Model ----
(***************************************************************************)
(* Model of the incremental discovery pipeline of finder/__main__.py:      *)
(* load_sent_beers / save_sent_beers / filter_new_beers, setup_driver,     *)
(* get_beers_from_brewery, find_matching_beers, send_email, _process and   *)
(* main.  One run of main() is a walk of pc from "Idle" to "Completed" or  *)
(* "Failed"; only the backing store sent_beers.json outlives the run.      *)
(***************************************************************************)
EXTENDS Integers, Sequences, FiniteSets, TLC

\* ---------------------------------------------------------------- bounds
MaxRuns == 2
MaxBreweries == 2
MaxCards == 2
MaxStyleLen == 3
MaxSubLen == 1
MaxDesired == 2

\* ------------------------------------------------------------ input sets
BreweryIds == {"X", "Y"}
Names == {"IPA Supreme", "New Stout"}
DisplayNames == {"Brewery"}

IPA == <<"I", "P", "A">>
Stout == <<"S", "t", "o", "u", "t">>
PageStyles == {IPA, Stout}
\* desired_styles as written in config.json (any case)
ConfigStyles == {<<>>, <<IPA>>, <<<<"i", "p", "a">>, <<"s", "t", "o", "u", "t">>>>}

Alphabet == {"a", "A", "b"}

RECURSIVE SeqsUpTo(_, _)
SeqsUpTo(S, n) ==
    IF n = 0 THEN {<<>>}
    ELSE LET shorter == SeqsUpTo(S, n - 1)
         IN  shorter \cup {Append(s, x) : s \in shorter, x \in S}

Range(s) == {s[k] : k \in 1..Len(s)}

\* sequences of distinct elements enumerating exactly the set S
Orderings(S) == {s \in SeqsUpTo(S, Cardinality(S)) : Len(s) = Cardinality(S) /\ Range(s) = S}

\* ------------------------------------------------------------- str.lower
LowerChar(c) ==
    CASE c = "A" -> "a"
      [] c = "B" -> "b"
      [] c = "I" -> "i"
      [] c = "P" -> "p"
      [] c = "S" -> "s"
      [] OTHER -> c

Lower(s) == [k \in 1..Len(s) |-> LowerChar(s[k])]

\* Python `sub in s` on str
StrIn(sub, s) ==
    \E k \in 0..(Len(s) - Len(sub)) : SubSeq(s, k + 1, k + Len(sub)) = sub

\* ----------------------------------------------------------------- state
VARIABLES
    store,            \* sent_beers.json: [kind, data]
    runs,             \* number of runs of main() started
    pc,               \* position of the current run
    failure,          \* site of the exception that ended the run, or "none"
    brewery_ids,      \* config['brewery_ids']
    config_styles,    \* config['desired_styles'] as written
    desired_styles,   \* lowercased list of find_matching_beers
    sent_beers,       \* in-memory ledger: brewery id -> set of names
    new_beers,        \* accumulated result of find_matching_beers
    i,                \* 1-based index of the brewery being processed
    driver,           \* local `driver` of get_beers_from_brewery
    sessions,         \* browser sessions started by this run and not quit
    page,             \* rendered page parsed by the current fetch, or NoPage
    beers,            \* list returned by get_beers_from_brewery
    matching_beers,   \* style-matching beers of the current brewery
    storeAtLoad,      \* backing store as it was when the run loaded it
    saveCalls,        \* invocations of save_sent_beers in this run
    firstFailed       \* index of the first brewery whose fetch raised, 0 if none

vars == <<store, runs, pc, failure, brewery_ids, config_styles, desired_styles,
          sent_beers, new_beers, i, driver, sessions, page, beers,
          matching_beers, storeAtLoad, saveCalls, firstFailed>>

NoPage == [present |-> FALSE]
MissingStore == [kind |-> "missing"]
CorruptStore == [kind |-> "corrupt"]

\* -------------------------------------------------------- ledger storage
\* load_sent_beers: arrays back to sets; a missing file is an empty ledger
load_sent_beers(st) ==
    IF st.kind = "missing" THEN <<>>
    ELSE [b \in DOMAIN st.data |-> Range(st.data[b])]

\* save_sent_beers: list(set) in any iteration order, then json.dump
SavedFiles(ledger) ==
    {[kind |-> "json", data |-> d] :
        d \in {f \in [DOMAIN ledger -> SeqsUpTo(Names, Cardinality(Names))] :
                 \A b \in DOMAIN ledger : f[b] \in Orderings(ledger[b])}}

\* sent_beers.get(brewery_id, set())
LedgerGet(ledger, brewery_id) ==
    IF brewery_id \in DOMAIN ledger THEN ledger[brewery_id] ELSE {}

\* faulty variant: the ledger is looked up by the display name, not the brewery id
RECURSIVE filter_new_beers_by_display_name(_, _, _)
filter_new_beers_by_display_name(bs, ledger, brewery_id) ==
    IF bs = <<>> THEN <<>>
    ELSE LET rest == filter_new_beers_by_display_name(Tail(bs), ledger, brewery_id)
         IN  IF Head(bs).name \notin LedgerGet(ledger, Head(bs).brewery)
             THEN <<Head(bs)>> \o rest
             ELSE rest

\* faulty variant: new beers are inserted at the front (insert(0, beer))
RECURSIVE filter_new_beers_prepending(_, _, _)
filter_new_beers_prepending(bs, ledger, brewery_id) ==
    IF bs = <<>> THEN <<>>
    ELSE LET rest == filter_new_beers_prepending(Tail(bs), ledger, brewery_id)
         IN  IF Head(bs).name \notin LedgerGet(ledger, brewery_id)
             THEN rest \o <<Head(bs)>>
             ELSE rest

\* filter_new_beers
RECURSIVE filter_new_beers(_, _, _)
filter_new_beers(bs, ledger, brewery_id) ==
    IF bs = <<>> THEN <<>>
    ELSE LET rest == filter_new_beers(Tail(bs), ledger, brewery_id)
         IN  IF Head(bs).name \notin LedgerGet(ledger, brewery_id)
             THEN <<Head(bs)>> \o rest
             ELSE rest

\* ------------------------------------------------------------ exceptions
\* where control lands when the given site raises
FetchSites == {"setup_driver", "driver.get", "wait", "extract"}
\* faulty variant: the save is wrapped in a try/except that only logs
HandlerSwallowsSave(site) ==
    IF site \in FetchSites THEN "Finally"
    ELSE IF site = "save_sent_beers" THEN "Returned"
    ELSE "Failed"

\* faulty variant: get_beers_from_brewery catches only the wait's TimeoutException
HandlerCatchesTimeoutOnly(site) ==
    IF site = "wait" THEN "Finally" ELSE "Failed"

Handler(site) ==
    IF site \in FetchSites THEN "Finally"      \* except Exception: return []
    ELSE "Failed"                              \* main: log and re-raise

\* --------------------------------------------------------- rendered page
\* an element is {} when select_one finds nothing, {text} otherwise
Cards ==
    {[name_elem |-> {"IPA Supreme"}, style_elem |-> {IPA}],
     [name_elem |-> {"New Stout"}, style_elem |-> {Stout}],
     [name_elem |-> {}, style_elem |-> {IPA}]}

Headings == {[card |-> FALSE, h1 |-> {}], [card |-> TRUE, h1 |-> {}]}
            \cup {[card |-> TRUE, h1 |-> {d}] : d \in DisplayNames}

Pages ==
    {[present |-> TRUE, heading |-> h, cards |-> cs] :
        h \in Headings, cs \in SeqsUpTo(Cards, MaxCards)}

Text(elem) == CHOOSE t \in elem : TRUE

\* brewery_card.select_one('h1').get_text(): raises when either is None
HeadingRaises(pg) == ~pg.heading.card \/ pg.heading.h1 = {}

\* the loop over beer_cards
RECURSIVE ParseCards(_, _, _)
ParseCards(cards, brewery_name, brewery_id) ==
    IF cards = <<>> THEN <<>>
    ELSE LET card == Head(cards)
             rest == ParseCards(Tail(cards), brewery_name, brewery_id)
         IN  IF card.name_elem # {} /\ card.style_elem # {}
             THEN <<[name |-> Text(card.name_elem),
                     style |-> Text(card.style_elem),
                     brewery |-> brewery_name,
                     brewery_id |-> brewery_id]>> \o rest
             ELSE rest

\* -------------------------------------------------------- style matching
\* any(style in beer['style'].lower() for style in desired_styles)
\* faulty variant: the style text is compared without .lower()
AnyStyleCaseSensitive(desired, style) ==
    \E k \in 1..Len(desired) : StrIn(desired[k], style)

AnyStyle(desired, style) ==
    \E k \in 1..Len(desired) : StrIn(desired[k], Lower(style))

RECURSIVE MatchingBeers(_, _)
MatchingBeers(bs, desired) ==
    IF bs = <<>> THEN <<>>
    ELSE LET rest == MatchingBeers(Tail(bs), desired)
         IN  IF AnyStyle(desired, Head(bs).style)
             THEN <<Head(bs)>> \o rest
             ELSE rest

\* [style.lower() for style in config.get('desired_styles', [])]
LowerAll(styles) == [k \in 1..Len(styles) |-> Lower(styles[k])]

\* sent_beers[brewery_id].update(names), creating the entry when absent
LedgerUpdate(ledger, brewery_id, nbb) ==
    IF nbb = <<>> THEN ledger
    ELSE [b \in DOMAIN ledger \cup {brewery_id} |->
            IF b = brewery_id
            THEN LedgerGet(ledger, b) \cup {nbb[k].name : k \in 1..Len(nbb)}
            ELSE ledger[b]]

\* ------------------------------------------------------------------ Init
BreweryLists == SeqsUpTo(BreweryIds, MaxBreweries)

Init ==
    /\ store = MissingStore
    /\ runs = 0
    /\ pc = "Idle"
    /\ failure = "none"
    /\ brewery_ids = <<>>
    /\ config_styles = <<>>
    /\ desired_styles = <<>>
    /\ sent_beers = <<>>
    /\ new_beers = <<>>
    /\ i = 1
    /\ driver = "None"
    /\ sessions = 0
    /\ page = NoPage
    /\ beers = <<>>
    /\ matching_beers = <<>>
    /\ storeAtLoad = MissingStore
    /\ saveCalls = 0
    /\ firstFailed = 0

\* an exception raised at `site` unwinds to its handler
Raise(site) ==
    /\ pc' = Handler(site)
    /\ failure' = IF Handler(site) = "Failed" THEN site ELSE failure
    /\ firstFailed' = IF site \in FetchSites /\ firstFailed = 0 THEN i ELSE firstFailed

\* --------------------------------------------------- find_matching_beers
StartRun ==
    /\ pc = "Idle"
    /\ runs < MaxRuns
    /\ store.kind # "corrupt"
    /\ \E ids \in BreweryLists, cs \in ConfigStyles :
          /\ brewery_ids' = ids
          /\ config_styles' = cs
          /\ desired_styles' = LowerAll(cs)
    /\ runs' = runs + 1
    /\ sent_beers' = load_sent_beers(store)
    /\ storeAtLoad' = store
    /\ new_beers' = <<>>
    /\ i' = 1
    /\ pc' = "Pacing"
    /\ UNCHANGED <<store, failure, driver, sessions, page, beers,
                   matching_beers, saveCalls, firstFailed>>

\* json.load raises JSONDecodeError on a truncated file; only
\* FileNotFoundError is caught
StartRunLoadFails ==
    /\ pc = "Idle"
    /\ runs < MaxRuns
    /\ store.kind = "corrupt"
    /\ \E ids \in BreweryLists, cs \in ConfigStyles :
          /\ brewery_ids' = ids
          /\ config_styles' = cs
          /\ desired_styles' = LowerAll(cs)
    /\ runs' = runs + 1
    /\ storeAtLoad' = store
    /\ Raise("load_sent_beers")
    /\ UNCHANGED <<store, sent_beers, new_beers, i, driver, sessions, page,
                   beers, matching_beers, saveCalls>>

Pacing ==
    /\ pc = "Pacing"
    /\ i <= Len(brewery_ids)
    /\ pc' = "SetupDriver"
    /\ UNCHANGED <<store, runs, failure, brewery_ids, config_styles,
                   desired_styles, sent_beers, new_beers, i, driver, sessions,
                   page, beers, matching_beers, storeAtLoad, saveCalls,
                   firstFailed>>

LoopDone ==
    /\ pc = "Pacing"
    /\ i > Len(brewery_ids)
    /\ pc' = "Persisting"
    /\ UNCHANGED <<store, runs, failure, brewery_ids, config_styles,
                   desired_styles, sent_beers, new_beers, i, driver, sessions,
                   page, beers, matching_beers, storeAtLoad, saveCalls,
                   firstFailed>>

\* ------------------------------------------------ get_beers_from_brewery
unchangedByFetch ==
    UNCHANGED <<store, runs, brewery_ids, config_styles, desired_styles,
                sent_beers, new_beers, i, matching_beers, storeAtLoad,
                saveCalls>>

\* setup_driver returns the session
SetupDriverOk ==
    /\ pc = "SetupDriver"
    /\ driver' = "session"
    /\ sessions' = sessions + 1
    /\ pc' = "Navigate"
    /\ UNCHANGED <<failure, page, beers, firstFailed>>
    /\ unchangedByFetch

\* Service(...) or webdriver.Chrome(...) raises: no session was created
SetupDriverNoSession ==
    /\ pc = "SetupDriver"
    /\ Raise("setup_driver")
    /\ beers' = <<>>
    /\ UNCHANGED <<driver, sessions, page>>
    /\ unchangedByFetch

\* webdriver.Chrome(...) succeeded and execute_script raises: setup_driver
\* re-raises without quitting, and `driver` of the caller is still None
SetupDriverScriptFails ==
    /\ pc = "SetupDriver"
    /\ sessions' = sessions + 1
    /\ Raise("setup_driver")
    /\ beers' = <<>>
    /\ UNCHANGED <<driver, page>>
    /\ unchangedByFetch

NavigateOk ==
    /\ pc = "Navigate"
    /\ pc' = "Wait"
    /\ UNCHANGED <<failure, driver, sessions, page, beers, firstFailed>>
    /\ unchangedByFetch

NavigateFails ==
    /\ pc = "Navigate"
    /\ Raise("driver.get")
    /\ beers' = <<>>
    /\ UNCHANGED <<driver, sessions, page>>
    /\ unchangedByFetch

WaitOk ==
    /\ pc = "Wait"
    /\ pc' = "Extracting"
    /\ UNCHANGED <<failure, driver, sessions, page, beers, firstFailed>>
    /\ unchangedByFetch

WaitTimeout ==
    /\ pc = "Wait"
    /\ Raise("wait")
    /\ beers' = <<>>
    /\ UNCHANGED <<driver, sessions, page>>
    /\ unchangedByFetch

Extract ==
    /\ pc = "Extracting"
    /\ \E pg \in Pages :
          /\ ~HeadingRaises(pg)
          /\ page' = pg
          /\ beers' = ParseCards(pg.cards, Text(pg.heading.h1), brewery_ids[i])
    /\ pc' = "Finally"
    /\ UNCHANGED <<failure, driver, sessions, firstFailed>>
    /\ unchangedByFetch

ExtractHeadingMissing ==
    /\ pc = "Extracting"
    /\ \E pg \in Pages :
          /\ HeadingRaises(pg)
          /\ page' = pg
    /\ Raise("extract")
    /\ beers' = <<>>
    /\ UNCHANGED <<driver, sessions>>
    /\ unchangedByFetch

\* finally: if driver: driver.quit()
Finally ==
    /\ pc = "Finally"
    /\ sessions' = IF driver # "None" THEN sessions - 1 ELSE sessions
    /\ driver' = "None"
    /\ page' = NoPage
    /\ pc' = "Matching"
    /\ UNCHANGED <<failure, beers, firstFailed>>
    /\ unchangedByFetch

\* ------------------------------------------- back in find_matching_beers
Matching ==
    /\ pc = "Matching"
    /\ matching_beers' = MatchingBeers(beers, desired_styles)
    /\ pc' = "DedupFiltering"
    /\ UNCHANGED <<store, runs, failure, brewery_ids, config_styles,
                   desired_styles, sent_beers, new_beers, i, driver, sessions,
                   page, beers, storeAtLoad, saveCalls, firstFailed>>

DedupFiltering ==
    /\ pc = "DedupFiltering"
    /\ LET new_brewery_beers ==
               filter_new_beers(matching_beers, sent_beers, brewery_ids[i])
       IN  /\ new_beers' = new_beers \o new_brewery_beers
           /\ sent_beers' = LedgerUpdate(sent_beers, brewery_ids[i], new_brewery_beers)
    /\ i' = i + 1
    /\ beers' = <<>>
    /\ matching_beers' = <<>>
    /\ pc' = "Pacing"
    /\ UNCHANGED <<store, runs, failure, brewery_ids, config_styles,
                   desired_styles, driver, sessions, page, storeAtLoad,
                   saveCalls, firstFailed>>

unchangedBySave ==
    UNCHANGED <<runs, brewery_ids, config_styles, desired_styles, sent_beers,
                new_beers, i, driver, sessions, page, beers, matching_beers,
                storeAtLoad>>

\* if new_beers: is false
SaveSkipped ==
    /\ pc = "Persisting"
    /\ new_beers = <<>>
    /\ pc' = "Returned"
    /\ UNCHANGED <<store, failure, saveCalls, firstFailed>>
    /\ unchangedBySave

\* faulty variant: the save is not guarded by `if new_beers:`
SaveOkUnguarded ==
    /\ pc = "Persisting"
    /\ saveCalls' = saveCalls + 1
    /\ store' \in SavedFiles(sent_beers)
    /\ pc' = "Returned"
    /\ UNCHANGED <<failure, firstFailed>>
    /\ unchangedBySave

\* faulty variant: the mapping written is the one loaded, without the run's names
SaveOkStale ==
    /\ pc = "Persisting"
    /\ new_beers # <<>>
    /\ saveCalls' = saveCalls + 1
    /\ store' \in SavedFiles(load_sent_beers(storeAtLoad))
    /\ pc' = "Returned"
    /\ UNCHANGED <<failure, firstFailed>>
    /\ unchangedBySave

SaveOk ==
    /\ pc = "Persisting"
    /\ new_beers # <<>>
    /\ saveCalls' = saveCalls + 1
    /\ store' \in SavedFiles(sent_beers)
    /\ pc' = "Returned"
    /\ UNCHANGED <<failure, firstFailed>>
    /\ unchangedBySave

\* open('sent_beers.json', 'w') raises (permission denied): file untouched
SaveOpenFails ==
    /\ pc = "Persisting"
    /\ new_beers # <<>>
    /\ saveCalls' = saveCalls + 1
    /\ Raise("save_sent_beers")
    /\ UNCHANGED store
    /\ unchangedBySave

\* open(..., 'w') truncated the file and json.dump raises (disk full)
SaveWriteFails ==
    /\ pc = "Persisting"
    /\ new_beers # <<>>
    /\ saveCalls' = saveCalls + 1
    /\ store' = CorruptStore
    /\ Raise("save_sent_beers")
    /\ unchangedBySave

\* -------------------------------------------------------------- _process
unchangedByProcess ==
    UNCHANGED <<store, runs, brewery_ids, config_styles, desired_styles,
                sent_beers, new_beers, i, driver, sessions, page, beers,
                matching_beers, storeAtLoad, saveCalls>>

\* if not matching_beers: return
ProcessNoBeers ==
    /\ pc = "Returned"
    /\ new_beers = <<>>
    /\ pc' = "Healthcheck"
    /\ UNCHANGED <<failure, firstFailed>>
    /\ unchangedByProcess

\* send_email returns: sent, or logged an incomplete email configuration
SendEmailReturns ==
    /\ pc = "Returned"
    /\ new_beers # <<>>
    /\ pc' = "Healthcheck"
    /\ UNCHANGED <<failure, firstFailed>>
    /\ unchangedByProcess

\* SMTP login or send raises: logged and re-raised
SendEmailFails ==
    /\ pc = "Returned"
    /\ new_beers # <<>>
    /\ Raise("send_email")
    /\ unchangedByProcess

\* ------------------------------------------------------------------ main
\* no healthcheck_url, or the ping succeeded
HealthcheckDone ==
    /\ pc = "Healthcheck"
    /\ pc' = "Completed"
    /\ UNCHANGED <<failure, firstFailed>>
    /\ unchangedByProcess

\* requests.get or raise_for_status raises
HealthcheckFails ==
    /\ pc = "Healthcheck"
    /\ Raise("healthcheck")
    /\ unchangedByProcess

\* the process exits; the next scheduled run starts from the backing store
EndRun ==
    /\ pc \in {"Completed", "Failed"}
    /\ pc' = "Idle"
    /\ failure' = "none"
    /\ brewery_ids' = <<>>
    /\ config_styles' = <<>>
    /\ desired_styles' = <<>>
    /\ sent_beers' = <<>>
    /\ new_beers' = <<>>
    /\ i' = 1
    /\ sessions' = 0
    /\ saveCalls' = 0
    /\ firstFailed' = 0
    /\ storeAtLoad' = store
    /\ UNCHANGED <<store, runs, driver, page, beers, matching_beers>>

Next ==
    \/ StartRun
    \/ StartRunLoadFails
    \/ Pacing
    \/ LoopDone
    \/ SetupDriverOk
    \/ SetupDriverNoSession
    \/ SetupDriverScriptFails
    \/ NavigateOk
    \/ NavigateFails
    \/ WaitOk
    \/ WaitTimeout
    \/ Extract
    \/ ExtractHeadingMissing
    \/ Finally
    \/ Matching
    \/ DedupFiltering
    \/ SaveSkipped
    \/ SaveOk
    \/ SaveOpenFails
    \/ SaveWriteFails
    \/ ProcessNoBeers
    \/ SendEmailReturns
    \/ SendEmailFails
    \/ HealthcheckDone
    \/ HealthcheckFails
    \/ EndRun

Spec == Init /\ [][Next]_vars

\* ------------------------------------------- the matching step on its own
\* find_matching_beers stopped between get_beers_from_brewery and the
\* matching loop, for every style text and every configured style list
MatchStyles == SeqsUpTo(Alphabet, MaxStyleLen)
DesiredLists == SeqsUpTo(SeqsUpTo(Alphabet, MaxSubLen), MaxDesired)

InitMatch ==
    /\ store = MissingStore
    /\ runs = 1
    /\ pc = "Matching"
    /\ failure = "none"
    /\ brewery_ids = <<"X">>
    /\ config_styles \in DesiredLists
    /\ desired_styles = LowerAll(config_styles)
    /\ sent_beers = <<>>
    /\ new_beers = <<>>
    /\ i = 1
    /\ driver = "None"
    /\ sessions = 0
    /\ page = NoPage
    /\ \E st \in MatchStyles :
          beers = <<[name |-> "IPA Supreme", style |-> st,
                     brewery |-> "Brewery", brewery_id |-> "X"]>>
    /\ matching_beers = <<>>
    /\ storeAtLoad = MissingStore
    /\ saveCalls = 0
    /\ firstFailed = 0

NextMatch == Matching

SpecMatch == InitMatch /\ [][NextMatch]_vars

\* ================================================================ claims
\* names recorded for a brewery in a backing store
StoredNames(st, b) ==
    IF st.kind = "json" /\ b \in DOMAIN st.data THEN Range(st.data[b]) ELSE {}

\* the backing store holds exactly the given ledger
Holds(st, ledger) ==
    /\ st.kind = "json"
    /\ DOMAIN st.data = DOMAIN ledger
    /\ \A b \in DOMAIN ledger : Range(st.data[b]) = ledger[b]

InResult(n, b) ==
    \E k \in 1..Len(new_beers) : new_beers[k].name = n /\ new_beers[k].brewery_id = b

\* C1: a name that is in the ledger for brewery B when the run loads it is
\* never in the run's result for B, whatever the style, the position on the
\* page or the order of the breweries.
C1_NoRepeat ==
    \A b \in BreweryIds : \A n \in StoredNames(storeAtLoad, b) : ~InResult(n, b)

C1_Witness ==
    /\ pc = "Returned"
    /\ brewery_ids = <<"Y", "X">>
    /\ "IPA Supreme" \in StoredNames(storeAtLoad, "X")
    /\ InResult("New Stout", "X")
    /\ InResult("IPA Supreme", "Y")

\* C2: save_sent_beers runs at most once per run, only after every brewery
\* was processed and only if a name was added; a run with an empty result
\* never saves and leaves the backing store as it was loaded.
C2_SaveOnceIfDirty ==
    /\ saveCalls <= 1
    /\ saveCalls = 1 =>
          /\ i = Len(brewery_ids) + 1
          /\ pc \in {"Returned", "Healthcheck", "Completed", "Failed"}
          /\ \E b \in BreweryIds :
                LedgerGet(sent_beers, b) \ StoredNames(storeAtLoad, b) # {}
    /\ (pc \in {"Returned", "Healthcheck", "Completed", "Failed"} /\ new_beers = <<>>) =>
          /\ saveCalls = 0
          /\ store = storeAtLoad

C2_Witness ==
    /\ pc = "Completed"
    /\ saveCalls = 1
    /\ runs = 2
    /\ store # storeAtLoad

\* the current fetch raised: setup failed, navigation or the wait failed
\* before any page was parsed, or the heading lookup raised
FetchRaised ==
    pc = "Finally" /\ (driver = "None" \/ ~page.present \/ HeadingRaises(page))

\* C3: a failure while fetching or extracting one brewery never escapes
\* find_matching_beers; that brewery contributes no beers, every later
\* brewery is processed and its matching unseen beers are in the result.
C3_Isolation ==
    /\ [](/\ failure \notin FetchSites
          /\ FetchRaised => beers = <<>>
          /\ pc \in {"Persisting", "Returned", "Healthcheck", "Completed"}
                => i = Len(brewery_ids) + 1)
    /\ [][/\ FetchRaised => pc' = "Matching"
          /\ (pc = "DedupFiltering" /\ firstFailed \in 1..(i - 1)) =>
                \A k \in 1..Len(beers) :
                    (/\ \E s \in Range(desired_styles) : StrIn(s, Lower(beers[k].style))
                     /\ beers[k].name \notin LedgerGet(sent_beers, brewery_ids[i]))
                    => \E m \in 1..Len(new_beers') : new_beers'[m] = beers[k]
          /\ (pc = "DedupFiltering" /\ firstFailed = i) => new_beers' = new_beers]_vars

C3_Witness ==
    /\ pc = "Returned"
    /\ firstFailed = 1
    /\ brewery_ids = <<"X", "Y">>
    /\ InResult("New Stout", "Y")

\* C4: a failed save_sent_beers is never swallowed: the run ends Failed
\* with the save as the cause and never completes.
C4_SaveFailurePropagates ==
    (saveCalls = 1 /\ ~Holds(store, sent_beers)) =>
        (pc = "Failed" /\ failure = "save_sent_beers")

C4_Witness ==
    /\ pc = "Failed"
    /\ saveCalls = 1
    /\ store = CorruptStore

\* text contains sub at some offset, compared character by character
\* after lowercasing both
ContainsIgnoringCase(text, sub) ==
    \E off \in 0..(Len(text) - Len(sub)) :
        \A j \in 1..Len(sub) : LowerChar(text[off + j]) = LowerChar(sub[j])

KeptByClaim(b) ==
    \E k \in 1..Len(config_styles) : ContainsIgnoringCase(b.style, config_styles[k])

\* C5: a beer is kept by the matching step iff its lowercased style
\* contains a configured style, lowercased, as a substring; with no
\* configured style nothing matches.
C5_StyleMatch ==
    pc = "DedupFiltering" =>
        /\ matching_beers = SelectSeq(beers, KeptByClaim)
        /\ config_styles = <<>> => matching_beers = <<>>

C5_Witness ==
    /\ pc = "DedupFiltering"
    /\ beers[1].style = <<"b", "A", "b">>
    /\ config_styles = <<<<"A">>>>
    /\ matching_beers = beers

\* C6: no browser session is open once get_beers_from_brewery has returned.
C6_SessionsTornDown ==
    pc \notin {"SetupDriver", "Navigate", "Wait", "Extracting", "Finally"}
        => sessions = 0

\* C7: the ledger only grows: in memory a run never drops a loaded name,
\* and the backing store never loses a name it held when the run loaded it.
C7_LedgerOnlyGrows ==
    \A b \in BreweryIds :
        /\ StoredNames(storeAtLoad, b) \subseteq StoredNames(store, b)
        /\ pc \notin {"Idle", "Failed"}
              => StoredNames(storeAtLoad, b) \subseteq LedgerGet(sent_beers, b)

\* C8: a page with beer items and no brewery display name still yields its
\* beer records.
C8_MissingHeadingKeepsBeers ==
    (pc = "Finally" /\ page.present /\ HeadingRaises(page)) =>
        Len(beers) = Len(ParseCards(page.cards, "", brewery_ids[i]))

Unseen(b) == b.name \notin LedgerGet(sent_beers, b.brewery_id)
KeptAndUnseen(b) ==
    /\ \E k \in 1..Len(desired_styles) : StrIn(desired_styles[k], Lower(b.style))
    /\ Unseen(b)

\* C9: the result is exactly the extracted beers that match a desired style
\* and are absent from the ledger of their brewery when it is checked, in
\* configuration order of the breweries and document order within one.
C9_ExactResult ==
    /\ [](pc \in {"Finally", "Matching", "DedupFiltering"} =>
            \A k \in 1..Len(beers) : beers[k].brewery_id = brewery_ids[i])
    /\ [][/\ pc = "DedupFiltering" =>
                /\ new_beers' = new_beers \o SelectSeq(beers, KeptAndUnseen)
                /\ i' = i + 1
          /\ (pc \notin {"DedupFiltering", "Idle", "Completed", "Failed"})
                => new_beers' = new_beers]_vars

C9_Witness ==
    /\ pc = "Returned"
    /\ brewery_ids = <<"X", "Y">>
    /\ StoredNames(storeAtLoad, "X") = {"IPA Supreme"}
    /\ Len(new_beers) = 3
    /\ new_beers[1].name = "New Stout" /\ new_beers[1].brewery_id = "X"
    /\ new_beers[2].name = "New Stout" /\ new_beers[2].brewery_id = "Y"
    /\ new_beers[3].name = "IPA Supreme" /\ new_beers[3].brewery_id = "Y"

\* C10: the ledger is saved before send_email is attempted, and when
\* send_email fails the failure reaches main while the backing store holds
\* every name recorded during the run.
C10_EmailFailureKeepsLedger ==
    /\ (pc = "Returned" /\ new_beers # <<>>) =>
          (saveCalls = 1 /\ Holds(store, sent_beers))
    /\ failure = "send_email" =>
          /\ pc = "Failed"
          /\ \A k \in 1..Len(new_beers) :
                new_beers[k].name \in StoredNames(store, new_beers[k].brewery_id)

C10_Witness ==
    /\ pc = "Failed"
    /\ failure = "send_email"
    /\ InResult("New Stout", "X")
    /\ "New Stout" \in StoredNames(store, "X")

====
